---------------------------- MODULE Spec2Model ----------------------------
(***************************************************************************)
(* ResNetV2 (zoo/resnet/resnet_v2_c.py): assembly of the layer graph of a  *)
(* residual network from a depth selector or a list of group specs.        *)
(*                                                                         *)
(* The layer graph is a sequence of layers; a tensor is the index of the   *)
(* layer that outputs it.  A builder b = [net, x, trace, raised] threads   *)
(* the graph built so far (net), the current tensor (x), the log of the    *)
(* calls made to group() (trace) and the exception raised, if any.         *)
(* Every layer carries the place it was constructed at (field at): the     *)
(* part of the network, the group and block number, and the branch.        *)
(***************************************************************************)
EXTENDS Integers, Sequences, FiniteSets

(* ------------------------------ bounds --------------------------------- *)

\* number of constructor calls in one run of the program
MaxConstructions == 2
\* longest user-supplied list of group specs
MaxGroups == 2
\* largest n_blocks of a user-supplied group spec
MaxBlocks == 1
\* largest n_filters of a user-supplied group spec
MaxFilters == 1
\* largest height/width the stem hands to the learner for a small input
MaxStemOut == 3

(* ----------------------- constants of the program ---------------------- *)

\* input_shape=(224, 224, 3)
DefaultSize == 224
\* n_classes=1000
DefaultClasses == 1000

DefaultStrides == <<2, 2>>

Depths == {50, 101, 152}

GroupsTable ==
  [d \in Depths |->
     CASE d = 50  -> << [n_filters |-> 64,  n_blocks |-> 3],
                        [n_filters |-> 128, n_blocks |-> 4],
                        [n_filters |-> 256, n_blocks |-> 6],
                        [n_filters |-> 512, n_blocks |-> 3] >>
       [] d = 101 -> << [n_filters |-> 64,  n_blocks |-> 3],
                        [n_filters |-> 128, n_blocks |-> 4],
                        [n_filters |-> 256, n_blocks |-> 23],
                        [n_filters |-> 512, n_blocks |-> 3] >>
       [] d = 152 -> << [n_filters |-> 64,  n_blocks |-> 3],
                        [n_filters |-> 128, n_blocks |-> 8],
                        [n_filters |-> 256, n_blocks |-> 36],
                        [n_filters |-> 512, n_blocks |-> 3] >> ]

InvalidValue == "ResNet: Invalid value for n_layers"

(* ------------------------------ inputs --------------------------------- *)

\* integer depth selectors a caller may pass
IntArgs == Depths \cup {18, 34, 200}

GroupSpecs == [n_filters : 1..MaxFilters, n_blocks : 0..MaxBlocks]

UserLists == UNION { [1..k -> GroupSpecs] : k \in 0..MaxGroups }

\* the stem divides the resolution by 4: one small size per stem output size
SmallSizes == { 4 * (p - 1) + 1 : p \in 1..MaxStemOut }

InputShapes == { <<DefaultSize, DefaultSize>> }
               \cup { <<h, w>> : h \in SmallSizes, w \in SmallSizes }

ClassCounts == {DefaultClasses}

(* ------------------------------- state --------------------------------- *)

VARIABLES
  groups,       \* ResNetV2.groups, the class attribute: depth -> list of group specs
  caller,       \* the caller's list of group specs (the object passed as n_layers)
  count,        \* constructor calls made so far
  pc,           \* "idle", "constructed" (the call returned) or "raised"
  n_layers,     \* the n_layers argument of the call: [int, value]
  input_shape,  \* the input_shape argument of the call: <<height, width>>
  passed,       \* the list of group specs as it was when the learner got it
  net,          \* the layers the call constructed
  trace,        \* the calls the call made to group()
  model,        \* self._model: <<inputs, outputs>>, or <<>> when not assigned
  exception     \* the exception the call raised, or "none"

vars == <<groups, caller, count, pc, n_layers, input_shape, passed,
          net, trace, model, exception>>

(* --------------------------- layer primitives -------------------------- *)

Where(part, g, blk, role) == [part |-> part, group |-> g, block |-> blk, role |-> role]

Emit(b, layer) == [b EXCEPT !.net = Append(@, layer), !.x = Len(b.net) + 1]

Shape(b) == b.net[b.x].shape

\* output size of a convolution or pooling window along one dimension
ConvOut(n, k, s, padding) ==
  IF padding = "same" THEN (n + s - 1) \div s ELSE (n - k) \div s + 1

Input(shape) ==
  [net |-> << [op |-> "Input", inputs |-> <<>>, shape |-> <<shape[1], shape[2], 3>>,
               at |-> Where("input", 0, 0, "main")] >>,
   x |-> 1, trace |-> <<>>, raised |-> "none"]

ZeroPadding2D(b, padding, at) ==
  Emit(b, [op |-> "ZeroPadding2D", inputs |-> <<b.x>>, padding |-> padding,
           shape |-> <<Shape(b)[1] + 2 * padding[1], Shape(b)[2] + 2 * padding[2], Shape(b)[3]>>,
           at |-> at])

Conv2D(b, n_filters, kernel_size, strides, padding, params, at) ==
  Emit(b, [op |-> "Conv2D", inputs |-> <<b.x>>, filters |-> n_filters,
           kernel |-> kernel_size, strides |-> strides, padding |-> padding,
           params |-> params,
           shape |-> <<ConvOut(Shape(b)[1], kernel_size[1], strides[1], padding),
                       ConvOut(Shape(b)[2], kernel_size[2], strides[2], padding),
                       n_filters>>,
           at |-> at])

BatchNormalization(b, at) ==
  Emit(b, [op |-> "BatchNormalization", inputs |-> <<b.x>>, shape |-> Shape(b), at |-> at])

ReLU(b, at) ==
  Emit(b, [op |-> "ReLU", inputs |-> <<b.x>>, shape |-> Shape(b), at |-> at])

MaxPooling2D(b, pool_size, strides, at) ==
  Emit(b, [op |-> "MaxPooling2D", inputs |-> <<b.x>>, kernel |-> pool_size,
           strides |-> strides, padding |-> "valid",
           shape |-> <<ConvOut(Shape(b)[1], pool_size[1], strides[1], "valid"),
                       ConvOut(Shape(b)[2], pool_size[2], strides[2], "valid"),
                       Shape(b)[3]>>,
           at |-> at])

\* Add()([t1, t2])
Add(b, t1, t2, at) ==
  Emit(b, [op |-> "Add", inputs |-> <<t1, t2>>, shape |-> b.net[t1].shape, at |-> at])

\* del metaparameters['n_filters'], on the block's own keyword dictionary
Del(metaparameters, key) ==
  [k \in DOMAIN metaparameters \ {key} |-> metaparameters[k]]

(* ------------------------------- stem ---------------------------------- *)

\* mutant: the pooling layer is not preceded by the (1, 1) zero padding
stem_unpadded_pool(inputs) ==
  LET at == Where("stem", 0, 0, "main")
      x1 == ZeroPadding2D(inputs, <<3, 3>>, at)
      x2 == Conv2D(x1, 64, <<7, 7>>, <<2, 2>>, "valid", <<>>, at)
      x3 == BatchNormalization(x2, at)
      x4 == ReLU(x3, at)
      x5 == ReLU(x4, at)
  IN  MaxPooling2D(x5, <<3, 3>>, <<2, 2>>, at)

stem(inputs) ==
  LET at == Where("stem", 0, 0, "main")
      x1 == ZeroPadding2D(inputs, <<3, 3>>, at)
      x2 == Conv2D(x1, 64, <<7, 7>>, <<2, 2>>, "valid", <<>>, at)
      x3 == BatchNormalization(x2, at)
      x4 == ReLU(x3, at)
      x5 == ZeroPadding2D(x4, <<1, 1>>, at)
  IN  MaxPooling2D(x5, <<3, 3>>, <<2, 2>>, at)

(* ------------------------------ blocks --------------------------------- *)

identity_block(b, metaparameters, g, blk) ==
  LET n_filters == metaparameters.n_filters
      rest == Del(metaparameters, "n_filters")
      at == Where("identity", g, blk, "main")
      shortcut == b.x
      x1 == BatchNormalization(b, at)
      x2 == ReLU(x1, at)
      x3 == Conv2D(x2, n_filters, <<1, 1>>, <<1, 1>>, "valid", rest, at)
      x4 == BatchNormalization(x3, at)
      x5 == ReLU(x4, at)
      x6 == Conv2D(x5, n_filters, <<3, 3>>, <<1, 1>>, "same", rest, at)
      x7 == BatchNormalization(x6, at)
      x8 == ReLU(x7, at)
      x9 == Conv2D(x8, n_filters * 4, <<1, 1>>, <<1, 1>>, "valid", rest, at)
  IN  Add(x9, shortcut, x9.x, at)

\* mutant: the projection shortcut ignores the group's strides
projection_block_unstrided_shortcut(b, strides, metaparameters, g, blk) ==
  LET n_filters == metaparameters.n_filters
      rest == Del(metaparameters, "n_filters")
      at == Where("projection", g, blk, "main")
      sc == Where("projection", g, blk, "shortcut")
      s1 == BatchNormalization(b, sc)
      s2 == Conv2D(s1, 4 * n_filters, <<1, 1>>, <<1, 1>>, "valid", rest, sc)
      shortcut == s2.x
      x1 == BatchNormalization([s2 EXCEPT !.x = b.x], at)
      x2 == ReLU(x1, at)
      x3 == Conv2D(x2, n_filters, <<1, 1>>, <<1, 1>>, "valid", rest, at)
      x4 == BatchNormalization(x3, at)
      x5 == ReLU(x4, at)
      x6 == Conv2D(x5, n_filters, <<3, 3>>, strides, "same", rest, at)
      x7 == BatchNormalization(x6, at)
      x8 == ReLU(x7, at)
      x9 == Conv2D(x8, 4 * n_filters, <<1, 1>>, <<1, 1>>, "valid", rest, at)
  IN  Add(x9, x9.x, shortcut, at)

\* mutant: the projection block doubles the filters instead of quadrupling them
projection_block_doubling(b, strides, metaparameters, g, blk) ==
  LET n_filters == metaparameters.n_filters
      rest == Del(metaparameters, "n_filters")
      at == Where("projection", g, blk, "main")
      sc == Where("projection", g, blk, "shortcut")
      s1 == BatchNormalization(b, sc)
      s2 == Conv2D(s1, 2 * n_filters, <<1, 1>>, strides, "valid", rest, sc)
      shortcut == s2.x
      x1 == BatchNormalization([s2 EXCEPT !.x = b.x], at)
      x2 == ReLU(x1, at)
      x3 == Conv2D(x2, n_filters, <<1, 1>>, <<1, 1>>, "valid", rest, at)
      x4 == BatchNormalization(x3, at)
      x5 == ReLU(x4, at)
      x6 == Conv2D(x5, n_filters, <<3, 3>>, strides, "same", rest, at)
      x7 == BatchNormalization(x6, at)
      x8 == ReLU(x7, at)
      x9 == Conv2D(x8, 2 * n_filters, <<1, 1>>, <<1, 1>>, "valid", rest, at)
  IN  Add(x9, x9.x, shortcut, at)

projection_block(b, strides, metaparameters, g, blk) ==
  LET n_filters == metaparameters.n_filters
      rest == Del(metaparameters, "n_filters")
      at == Where("projection", g, blk, "main")
      sc == Where("projection", g, blk, "shortcut")
      s1 == BatchNormalization(b, sc)
      s2 == Conv2D(s1, 4 * n_filters, <<1, 1>>, strides, "valid", rest, sc)
      shortcut == s2.x
      x1 == BatchNormalization([s2 EXCEPT !.x = b.x], at)
      x2 == ReLU(x1, at)
      x3 == Conv2D(x2, n_filters, <<1, 1>>, <<1, 1>>, "valid", rest, at)
      x4 == BatchNormalization(x3, at)
      x5 == ReLU(x4, at)
      x6 == Conv2D(x5, n_filters, <<3, 3>>, strides, "same", rest, at)
      x7 == BatchNormalization(x6, at)
      x8 == ReLU(x7, at)
      x9 == Conv2D(x8, 4 * n_filters, <<1, 1>>, <<1, 1>>, "valid", rest, at)
  IN  Add(x9, x9.x, shortcut, at)

(* ------------------------------- group --------------------------------- *)

RECURSIVE identity_blocks(_, _, _, _, _)
\* for _ in range(n_blocks): x = self.identity_block(x, **metaparameters)
identity_blocks(b, blk, n_blocks, metaparameters, g) ==
  IF blk > n_blocks \/ b.raised # "none" THEN b
  ELSE identity_blocks(identity_block(b, metaparameters, g, blk),
                       blk + 1, n_blocks, metaparameters, g)

\* mutant: n_blocks taken as the number of blocks of the group, projection block included
group_counting_projection(b, strides, metaparameters) ==
  LET g == Len(b.trace) + 1
      n_blocks == metaparameters.n_blocks
      called == [b EXCEPT !.trace = Append(@, [strides |-> strides,
                                               n_filters |-> metaparameters.n_filters,
                                               n_blocks |-> metaparameters.n_blocks])]
      x == projection_block(called, strides, metaparameters, g, 0)
  IN  identity_blocks(x, 1, n_blocks - 1, metaparameters, g)

group(b, strides, metaparameters) ==
  LET g == Len(b.trace) + 1
      n_blocks == metaparameters.n_blocks
      called == [b EXCEPT !.trace = Append(@, [strides |-> strides,
                                               n_filters |-> metaparameters.n_filters,
                                               n_blocks |-> metaparameters.n_blocks])]
      x == projection_block(called, strides, metaparameters, g, 0)
  IN  identity_blocks(x, 1, n_blocks, metaparameters, g)

(* ------------------------------ learner -------------------------------- *)

RECURSIVE remaining_groups(_, _, _)
\* for group in groups: x = self.group(x, **group)
remaining_groups(b, grps, i) ==
  IF i > Len(grps) \/ b.raised # "none" THEN b
  ELSE remaining_groups(group(b, DefaultStrides, grps[i]), grps, i + 1)

\* mutant: the first group is built with the default strides
learner_first_group_strided(b, grps) ==
  IF grps = <<>>
  THEN [b |-> [b EXCEPT !.raised = "IndexError"], groups |-> grps]
  ELSE LET first == Head(grps)
           popped == Tail(grps)
           x == group(b, DefaultStrides, first)
       IN  [b |-> remaining_groups(x, popped, 1), groups |-> popped]

\* returns the builder and the list the caller passed, as the learner leaves it
learner(b, grps) ==
  IF grps = <<>>
  THEN [b |-> [b EXCEPT !.raised = "IndexError"], groups |-> grps]
  ELSE LET first == Head(grps)
           popped == Tail(grps)
           x == group(b, <<1, 1>>, first)
       IN  [b |-> remaining_groups(x, popped, 1), groups |-> popped]

(* ----------------------------- classifier ------------------------------ *)

classifier(b, n_classes) ==
  LET at == Where("classifier", 0, 0, "main")
      x1 == Emit(b, [op |-> "GlobalAveragePooling2D", inputs |-> <<b.x>>,
                     shape |-> <<1, 1, Shape(b)[3]>>, at |-> at])
  IN  Emit(x1, [op |-> "Dense", inputs |-> <<x1.x>>, units |-> n_classes,
                shape |-> <<1, 1, n_classes>>, at |-> at])

(* ----------------------------- constructor ----------------------------- *)

\* the outcome of a call: what it built, what it raised, and the list it was
\* given as the call leaves it
Raise(b, what, grps) ==
  [net |-> b.net, trace |-> b.trace, model |-> <<>>, exception |-> what, groups |-> grps]

\* self._model = Model(inputs, outputs); inputs is the first layer constructed
Model(outputs, grps) ==
  [net |-> outputs.net, trace |-> outputs.trace, model |-> <<1, outputs.x>>,
   exception |-> "none", groups |-> grps]

\* the classifier and the model, unless the learner raised
Finish(l, n_classes) ==
  IF l.b.raised # "none"
  THEN Raise(l.b, l.b.raised, l.groups)
  ELSE Model(classifier(l.b, n_classes), l.groups)

\* lines 71-84: input, stem, learner, classifier, model
Assemble(grps, shape, n_classes) ==
  Finish(learner(stem(Input(shape)), grps), n_classes)

\* mutant: the depth is validated after the input and the stem are constructed
ResNetV2_init_late_validation(arg, table, shape, n_classes) ==
  IF arg.int
  THEN IF arg.value \notin Depths
       THEN Raise(stem(Input(shape)), InvalidValue, <<>>)
       ELSE Assemble(table[arg.value], shape, n_classes)
  ELSE Assemble(arg.value, shape, n_classes)

\* ResNetV2.__init__: arg is the n_layers argument, table the class attribute
ResNetV2_init(arg, table, shape, n_classes) ==
  IF arg.int
  THEN IF arg.value \notin Depths
       THEN Raise([net |-> <<>>, trace |-> <<>>], InvalidValue, <<>>)
       ELSE Assemble(table[arg.value], shape, n_classes)
  ELSE Assemble(arg.value, shape, n_classes)

(* ------------------------------ actions -------------------------------- *)

Init ==
  /\ groups = GroupsTable
  /\ caller = <<>>
  /\ count = 0
  /\ pc = "idle"
  /\ n_layers = [int |-> FALSE, value |-> <<>>]
  /\ input_shape = <<DefaultSize, DefaultSize>>
  /\ passed = <<>>
  /\ net = <<>>
  /\ trace = <<>>
  /\ model = <<>>
  /\ exception = "none"

Returned(r) ==
  /\ pc' = IF r.exception = "none" THEN "constructed" ELSE "raised"
  /\ net' = r.net
  /\ trace' = r.trace
  /\ model' = r.model
  /\ exception' = r.exception
  /\ count' = count + 1

\* ResNetV2(d, input_shape, n_classes) with an integer d
ConstructPredefined(d, shape, n_classes) ==
  /\ pc = "idle"
  /\ count < MaxConstructions
  /\ \E r \in { ResNetV2_init([int |-> TRUE, value |-> d], groups, shape, n_classes) } :
         /\ n_layers' = [int |-> TRUE, value |-> d]
         /\ input_shape' = shape
         /\ passed' = IF d \in Depths THEN groups[d] ELSE <<>>
         /\ groups' = IF d \in Depths THEN [groups EXCEPT ![d] = r.groups] ELSE groups
         /\ Returned(r)
  /\ UNCHANGED caller

\* groups = [ ... ]; ResNetV2(groups, input_shape, n_classes)
ConstructUser(list, shape, n_classes) ==
  /\ pc = "idle"
  /\ count < MaxConstructions
  /\ \E r \in { ResNetV2_init([int |-> FALSE, value |-> list], groups, shape, n_classes) } :
         /\ n_layers' = [int |-> FALSE, value |-> list]
         /\ input_shape' = shape
         /\ passed' = list
         /\ caller' = r.groups
         /\ Returned(r)
  /\ UNCHANGED groups

\* the caller passes the same list object to ResNetV2(groups, input_shape, n_classes) again
ConstructAgain(n_classes) ==
  /\ pc # "idle"
  /\ ~ n_layers.int
  /\ count < MaxConstructions
  /\ \E r \in { ResNetV2_init([int |-> FALSE, value |-> caller], groups, input_shape, n_classes) } :
         /\ n_layers' = [int |-> FALSE, value |-> caller]
         /\ passed' = caller
         /\ caller' = r.groups
         /\ Returned(r)
  /\ UNCHANGED <<groups, input_shape>>

\* the caller returns: the instance (or the exception) of the last call and the
\* caller's list go out of scope
Release ==
  /\ pc # "idle"
  /\ pc' = "idle"
  /\ n_layers' = [int |-> FALSE, value |-> <<>>]
  /\ input_shape' = <<DefaultSize, DefaultSize>>
  /\ passed' = <<>>
  /\ caller' = <<>>
  /\ net' = <<>>
  /\ trace' = <<>>
  /\ model' = <<>>
  /\ exception' = "none"
  /\ UNCHANGED <<groups, count>>

Next ==
  \/ \E d \in IntArgs, shape \in InputShapes, c \in ClassCounts : ConstructPredefined(d, shape, c)
  \/ \E list \in UserLists, shape \in InputShapes, c \in ClassCounts : ConstructUser(list, shape, c)
  \/ \E c \in ClassCounts : ConstructAgain(c)
  \/ Release

Spec == Init /\ [][Next]_vars

(* ------------------------------ properties ----------------------------- *)

Layers == 1..Len(net)

Called == pc # "idle"

InBlock(i) == net[i].at.part \in {"projection", "identity"}

IsConv(i) == net[i].op = "Conv2D"

InputOf(i) == net[i].inputs[1]

\* the group specs of the calls made to group(), in call order
Built == [g \in 1..Len(trace) |->
            [n_filters |-> trace[g].n_filters, n_blocks |-> trace[g].n_blocks]]

\* the call was given an integer depth while the table entry was as predefined
Fresh == n_layers.int /\ n_layers.value \in Depths /\ passed = GroupsTable[n_layers.value]

\* the tensor the learner returns: the input of the classifier's pooling layer
LearnerOut == net[InputOf(Len(net) - 1)].shape

\* C1: every call with a depth d of {50, 101, 152} returns a network built of
\* exactly the four groups the predefined table lists for d, in table order,
\* whatever calls came before, and leaves the predefined table as it was.
DepthDeterministic ==
  (Called /\ n_layers.int /\ n_layers.value \in Depths) =>
     /\ pc = "constructed"
     /\ Built = GroupsTable[n_layers.value]
     /\ groups = GroupsTable

\* C2: a call with an integer depth outside {50, 101, 152} raises "ResNet: Invalid
\* value for n_layers"; it constructs no layer at all and assigns no model.
InvalidDepthRejected ==
  (Called /\ n_layers.int /\ n_layers.value \notin Depths) =>
     /\ pc = "raised"
     /\ exception = InvalidValue
     /\ net = <<>>
     /\ trace = <<>>
     /\ model = <<>>

InvalidDepthCalled ==
  Called /\ n_layers.int /\ n_layers.value = 34

\* C3: the two inputs of every Add have the same height, width and channel
\* count; the block input an identity block adds already has 4 * n_filters channels.
AddShapesMatch ==
  \A i \in Layers :
    net[i].op = "Add" =>
      /\ net[net[i].inputs[1]].shape = net[net[i].inputs[2]].shape
      /\ net[i].at.part = "identity" =>
           net[net[i].inputs[1]].shape[3] = 4 * trace[net[i].at.group].n_filters

\* a strided projection block whose input has odd height and width above 1,
\* followed by an identity block
OddStridedProjection ==
  /\ pc = "constructed"
  /\ \E j \in Layers :
       /\ IsConv(j)
       /\ net[j].at.role = "shortcut"
       /\ net[j].strides = <<2, 2>>
       /\ LET s == net[InputOf(InputOf(j))].shape
          IN  s[1] % 2 = 1 /\ s[1] > 1 /\ s[2] % 2 = 1 /\ s[2] > 1
       /\ \E i \in Layers :
            net[i].op = "Add" /\ net[i].at.part = "identity" /\ net[i].at.group = net[j].at.group

\* C4: every convolution of a block, the projection shortcut's included, reads
\* the output of a ReLU that reads the output of a BatchNormalization, and no
\* ReLU reads the output of an Add.
PreActivation ==
  /\ \A i \in Layers :
       (IsConv(i) /\ InBlock(i)) =>
          /\ net[InputOf(i)].op = "ReLU"
          /\ net[InputOf(InputOf(i))].op = "BatchNormalization"
  /\ \A i \in Layers :
       net[i].op = "ReLU" => net[InputOf(i)].op # "Add"

\* the weighted layers of the main path: the stem convolution, the three
\* convolutions of every block, the dense layer
MainWeighted ==
  { i \in Layers : \/ IsConv(i) /\ net[i].at.role = "main"
                   \/ net[i].op = "Dense" }

\* C5: a fresh call with depth d returns a network with d weighted layers on
\* its main path.
LayerCountIsDepth ==
  (pc = "constructed" /\ Fresh) => Cardinality(MainWeighted) = n_layers.value

\* C6: the g-th group of a constructed network is one projection block followed
\* by exactly n_blocks identity blocks, n_blocks + 1 blocks with one Add each,
\* all of them with the n_filters of the g-th spec of the list.
GroupStructure ==
  pc = "constructed" =>
    /\ { net[i].at.group : i \in { j \in Layers : InBlock(j) } } = 1..Len(passed)
    /\ \A i \in Layers : InBlock(i) =>
         /\ net[i].at.part = IF net[i].at.block = 0 THEN "projection" ELSE "identity"
         /\ (i < Len(net) /\ InBlock(i + 1) /\ net[i + 1].at.group = net[i].at.group) =>
               net[i + 1].at.block \in {net[i].at.block, net[i].at.block + 1}
         /\ (i < Len(net) /\ InBlock(i + 1) /\ net[i + 1].at.group # net[i].at.group) =>
               /\ net[i + 1].at.group = net[i].at.group + 1
               /\ net[i + 1].at.block = 0
         /\ IsConv(i) => net[i].filters \in { passed[net[i].at.group].n_filters,
                                             4 * passed[net[i].at.group].n_filters }
    /\ \A g \in 1..Len(passed) :
         LET members == { i \in Layers : InBlock(i) /\ net[i].at.group = g }
         IN  /\ { net[i].at.block : i \in members } = 0..passed[g].n_blocks
             /\ \A blk \in 0..passed[g].n_blocks :
                  Cardinality({ i \in members : net[i].at.block = blk /\ net[i].op = "Add" }) = 1
             /\ Cardinality({ i \in members : net[i].op = "Add" }) = passed[g].n_blocks + 1

GroupWithIdentityBlock ==
  /\ pc = "constructed"
  /\ ~ n_layers.int
  /\ \E g \in 1..Len(passed) : passed[g].n_blocks >= 1
  /\ \E g \in 1..Len(passed) : passed[g].n_blocks = 0

\* C7: a learner given k >= 1 groups builds exactly those k groups in list order,
\* the first with strides (1, 1) and the others with (2, 2); in a projection
\* block the shortcut convolution and the 3x3 convolution carry the strides of
\* the group, and every other convolution of a block has strides (1, 1).
StridePlacement ==
  (Called /\ passed # <<>>) =>
    /\ pc = "constructed"
    /\ Built = passed
    /\ \A g \in 1..Len(trace) :
         trace[g].strides = IF g = 1 THEN <<1, 1>> ELSE <<2, 2>>
    /\ \A i \in Layers : (IsConv(i) /\ InBlock(i)) =>
         net[i].strides =
           IF net[i].at.part = "projection"
              /\ (net[i].at.role = "shortcut" \/ net[i].kernel = <<3, 3>>)
           THEN trace[net[i].at.group].strides
           ELSE <<1, 1>>

SeveralGroupsBuilt ==
  /\ pc = "constructed"
  /\ ~ n_layers.int
  /\ Len(passed) >= 2

\* the convolutions of the main path of the blocks, in construction order
MainConvs ==
  SelectSeq(net, LAMBDA l : l.op = "Conv2D" /\ l.at.role = "main"
                            /\ l.at.part \in {"projection", "identity"})

\* C8: the main path of every block of a group with n_filters = f is a 1x1
\* convolution with f filters, a 3x3 with f and a 1x1 with 4 * f, a projection
\* shortcut has 4 * f filters, every block outputs 4 * f channels, and the
\* learner outputs 4 times the n_filters of the last group: 2048 for a depth.
BottleneckExpansion ==
  pc = "constructed" =>
    /\ Len(MainConvs) % 3 = 0
    /\ \A j \in 1..Len(MainConvs) :
         LET l == MainConvs[j]
             f == passed[l.at.group].n_filters
             k == ((j - 1) % 3) + 1
             first == MainConvs[j - (k - 1)]
         IN  /\ l.kernel = <<<<1, 1>>, <<3, 3>>, <<1, 1>>>>[k]
             /\ l.filters = <<f, f, 4 * f>>[k]
             /\ l.at = first.at
    /\ \A i \in Layers :
         /\ (IsConv(i) /\ net[i].at.role = "shortcut") =>
               net[i].filters = 4 * passed[net[i].at.group].n_filters
         /\ net[i].op = "Add" =>
               net[i].shape[3] = 4 * passed[net[i].at.group].n_filters
    /\ LearnerOut[3] = 4 * passed[Len(passed)].n_filters
    /\ n_layers.int => LearnerOut[3] = 2048

PredefinedBuilt ==
  /\ pc = "constructed"
  /\ n_layers.int
  /\ \E i \in Layers : net[i].op = "Add" /\ net[i].at.part = "identity"

\* C9: for a 224x224 input the stem pads to 230x230, its 7x7 stride-2 valid
\* convolution outputs 112x112 with 64 channels and its padded 3x3 stride-2
\* pooling 56x56, a quarter of the positions; the learner of a fresh call with
\* a depth then outputs 7x7.
StemResolution ==
  (Called /\ net # <<>> /\ input_shape = <<DefaultSize, DefaultSize>>) =>
    /\ Len(net) >= 7
    /\ net[2].op = "ZeroPadding2D" /\ net[2].shape = <<230, 230, 3>>
    /\ net[3].op = "Conv2D" /\ net[3].kernel = <<7, 7>> /\ net[3].strides = <<2, 2>>
    /\ net[3].padding = "valid" /\ net[3].shape = <<112, 112, 64>>
    /\ net[7].op = "MaxPooling2D" /\ net[7].kernel = <<3, 3>> /\ net[7].strides = <<2, 2>>
    /\ net[7].shape = <<56, 56, 64>>
    /\ 4 * net[7].shape[1] * net[7].shape[2] = net[3].shape[1] * net[3].shape[2]
    /\ (pc = "constructed" /\ Fresh) => (LearnerOut[1] = 7 /\ LearnerOut[2] = 7)

FreshDefaultBuilt ==
  /\ pc = "constructed"
  /\ Fresh
  /\ input_shape = <<DefaultSize, DefaultSize>>

\* C10: a call given a list of group specs leaves the caller's list as it was:
\* same length, same specs in the same order, each with its n_filters and n_blocks.
ArgumentUnchanged ==
  (pc = "constructed" /\ ~ n_layers.int) => caller = passed

=============================================================================
